---- MODULE Spec2Model ----
(***************************************************************************)
(* Model of the recipes-api request handlers.                              *)
(*                                                                         *)
(* The repository holds three builds of the same service:                  *)
(*   - the in-memory build (package-level slice `recipes`),                *)
(*   - the database build (package-level *gorm.DB),                        *)
(*   - the database build with the handlers/models split                   *)
(*     (RecipeController); its handlers are statement-for-statement the    *)
(*     same as the database build's, so both are modelled by the Db*       *)
(*     definitions below.                                                  *)
(* `variant` says which build is running; `recipes` is the in-memory slice *)
(* or the rows of the recipes table.                                       *)
(*                                                                         *)
(* Strings that the code only compares (ids, names) are TLA+ strings;      *)
(* tags and the search tag are sequences of one-character strings so that  *)
(* strings.ToLower and strings.Contains are computed, not assumed.         *)
(***************************************************************************)
EXTENDS Integers, Sequences, FiniteSets, TLC

VARIABLES variant, recipes, xidCount, clock, req, resp, upd, del

vars == <<variant, recipes, xidCount, clock, req, resp, upd, del>>

\* ------------------------------------------------------------------ bounds
\* Number of POST /recipes requests a behaviour may contain.
MaxCreates == 2

\* --------------------------------------------------------------- Go values
\* time.Time{} (IsZero) and the zero string.
ZeroTime == 0
EmptyString == ""

\* A []string is nil (field absent from the JSON body) or a possibly empty
\* list of strings.
NilSlice == [isNil |-> TRUE, elems |-> <<>>]
Slice(s) == [isNil |-> FALSE, elems |-> s]

\* ------------------------------------------------------------ package strings
UpperCase == <<"A","B","C","D","E","F","G","H","I","J","K","L","M",
               "N","O","P","Q","R","S","T","U","V","W","X","Y","Z">>
LowerCase == <<"a","b","c","d","e","f","g","h","i","j","k","l","m",
               "n","o","p","q","r","s","t","u","v","w","x","y","z">>

ToLowerChar(c) ==
    IF \E k \in 1..Len(UpperCase) : UpperCase[k] = c
    THEN LowerCase[CHOOSE k \in 1..Len(UpperCase) : UpperCase[k] = c]
    ELSE c

\* strings.ToLower
ToLower(s) == [k \in 1..Len(s) |-> ToLowerChar(s[k])]

\* strings.Contains(s, substr); the empty string is contained in every string.
Contains(s, substr) ==
    \E k \in 0..(Len(s) - Len(substr)) : SubSeq(s, k + 1, k + Len(substr)) = substr

\* ------------------------------------------------------------------ xid
\* xid.New().String(): a fresh identifier on every call, never repeated.
XidPool == <<"xid1", "xid2", "xid3", "xid4", "xid5", "xid6">>
Xid(n) == XidPool[n]

\* ----------------------------------------------------------- request data
Dessert     == <<"D","e","s","s","e","r","t">>
Pasta       == <<"p","a","s","t","a">>
PastaSalad  == <<"p","a","s","t","a"," ","s","a","l","a","d">>

\* Recipe structs as ShouldBindJSON leaves them for three request bodies:
\*   {"id":"other","name":"Cake","ingredients":[],"instructions":[],
\*    "publishedAt":<some time>}                      (tags omitted)
\*   {"name":"Tiramisu","tags":["Dessert"],"ingredients":["flour"],
\*    "instructions":["bake"]}
\*   {"tags":["pasta","pasta salad"]}                 (everything else omitted)
BodyCake ==
    [ID |-> "other", Name |-> "Cake", Tags |-> NilSlice,
     Ingredients |-> Slice(<<>>), Instructions |-> Slice(<<>>),
     PublishedAt |-> -1]
BodyTiramisu ==
    [ID |-> EmptyString, Name |-> "Tiramisu", Tags |-> Slice(<<Dessert>>),
     Ingredients |-> Slice(<<"flour">>), Instructions |-> Slice(<<"bake">>),
     PublishedAt |-> ZeroTime]
BodyPasta ==
    [ID |-> EmptyString, Name |-> EmptyString,
     Tags |-> Slice(<<Pasta, PastaSalad>>),
     Ingredients |-> NilSlice, Instructions |-> NilSlice,
     PublishedAt |-> ZeroTime]

ZeroRecipe ==
    [ID |-> EmptyString, Name |-> EmptyString, Tags |-> NilSlice,
     Ingredients |-> NilSlice, Instructions |-> NilSlice,
     PublishedAt |-> ZeroTime]

\* A request payload: bytes that bind to a Recipe, or bytes that do not.
Payloads ==
    {[ok |-> TRUE, recipe |-> b] : b \in {BodyCake, BodyTiramisu, BodyPasta}}
    \cup {[ok |-> FALSE, recipe |-> ZeroRecipe]}
NoPayload == [ok |-> FALSE, recipe |-> ZeroRecipe]

\* c.Param("id"): the router only matches a non-empty path segment.
PathIDs == {"other"} \cup {Xid(n) : n \in 1..MaxCreates}

\* c.Query("tag"): absent or empty gives "".
QueryTags == {<<>>, <<"s","s","e","r">>, <<"D","E","S","S","E","R","T">>, Pasta}

\* recipes.json: no records, or one record without id and publishedAt.
InitialFiles == {<<>>, <<BodyPasta>>}

\* --------------------------------------------------------------- responses
\* One c.JSON call: status code, the kind of body and the recipes in it.
Write(code, kind, rs) == [code |-> code, kind |-> kind, recipes |-> rs]

Request(op, id, payload, tag) ==
    [op |-> op, id |-> id, payload |-> payload, tag |-> tag]

Idle == [pc |-> "idle", id |-> EmptyString, recipe |-> ZeroRecipe,
         existing |-> ZeroRecipe, resp |-> <<>>]

\* ------------------------------------------------------------ shared helpers
\* The records of rs whose ID is id.
HasID(rs, id) == \E i \in 1..Len(rs) : rs[i].ID = id

\* A request leaves a Recipe store and a sequence of c.JSON writes.
Respond(r, writes) ==
    /\ req' = r
    /\ resp' = writes

\* =========================================================================
\* In-memory build
\* =========================================================================

\* init(): recipes = make([]Recipe, 0); json.Unmarshal(file, &recipes).
\* The records are taken as the file has them.
MemInit(file) == file

\* The lookup loop of UpdateRecipeHandler and DeleteRecipeHandler: no break,
\* so the last matching index wins. 0 stands for Go's -1 (indices are 1-based).
FindIndexFromLen(rs, id) ==
    IF HasID(rs, id)
    THEN CHOOSE i \in 1..Len(rs) :
            rs[i].ID = id /\ \A j \in (i + 1)..Len(rs) : rs[j].ID # id
    ELSE Len(rs)
FindIndex(rs, id) ==
    IF HasID(rs, id)
    THEN CHOOSE i \in 1..Len(rs) :
            rs[i].ID = id /\ \A j \in (i + 1)..Len(rs) : rs[j].ID # id
    ELSE 0

\* append(recipes[:index], recipes[index+1:]...)
RemoveAtNoTail(rs, i) == SubSeq(rs, 1, i - 1)
RemoveAt(rs, i) == SubSeq(rs, 1, i - 1) \o SubSeq(rs, i + 1, Len(rs))

\* The inner loops of the in-memory SearchRecipesHandler: strings.Contains on
\* the tag as stored and the tag as given; `found` adds a record once.
MemFound(recipe, tag) ==
    \E k \in 1..Len(recipe.Tags.elems) : Contains(recipe.Tags.elems[k], tag)

RECURSIVE MemSearch(_, _)
MemSearch(rs, tag) ==
    IF rs = <<>> THEN <<>>
    ELSE (IF MemFound(Head(rs), tag) THEN <<Head(rs)>> ELSE <<>>)
         \o MemSearch(Tail(rs), tag)

MemNewRecipeHandler(payload) ==
    /\ variant = "memory"
    /\ xidCount < MaxCreates
    /\ IF ~payload.ok
       THEN /\ Respond(Request("Create", EmptyString, payload, <<>>),
                       <<Write(400, "error", <<>>)>>)
            /\ UNCHANGED <<recipes, xidCount, clock>>
       ELSE LET recipe == [payload.recipe EXCEPT !.ID = Xid(xidCount + 1),
                                                 !.PublishedAt = clock]
            IN /\ recipes' = Append(recipes, recipe)
               /\ xidCount' = xidCount + 1
               /\ clock' = clock + 1
               /\ Respond(Request("Create", EmptyString, payload, <<>>),
                          <<Write(200, "recipe", <<recipe>>)>>)
    /\ UNCHANGED <<variant, upd, del>>

MemListRecipesHandler ==
    /\ variant = "memory"
    /\ Respond(Request("List", EmptyString, NoPayload, <<>>),
               <<Write(200, "list", recipes)>>)
    /\ UNCHANGED <<variant, recipes, xidCount, clock, upd, del>>

MemUpdateRecipeHandler(id, payload) ==
    /\ variant = "memory"
    /\ LET index == FindIndex(recipes, id)
       IN IF ~payload.ok
          THEN /\ Respond(Request("Update", id, payload, <<>>),
                          <<Write(400, "error", <<>>)>>)
               /\ UNCHANGED recipes
          ELSE IF index = 0
          THEN /\ Respond(Request("Update", id, payload, <<>>),
                          <<Write(404, "error", <<>>)>>)
               /\ UNCHANGED recipes
          ELSE /\ recipes' = [recipes EXCEPT ![index] = payload.recipe]
               /\ Respond(Request("Update", id, payload, <<>>),
                          <<Write(200, "recipe", <<payload.recipe>>)>>)
    /\ UNCHANGED <<variant, xidCount, clock, upd, del>>

MemDeleteRecipeHandler(id) ==
    /\ variant = "memory"
    /\ LET index == FindIndex(recipes, id)
       IN IF index = 0
          THEN /\ Respond(Request("Delete", id, NoPayload, <<>>),
                          <<Write(404, "error", <<>>)>>)
               /\ UNCHANGED recipes
          ELSE /\ recipes' = RemoveAt(recipes, index)
               /\ Respond(Request("Delete", id, NoPayload, <<>>),
                          <<Write(200, "message", <<>>)>>)
    /\ UNCHANGED <<variant, xidCount, clock, upd, del>>

MemSearchRecipesHandler(tag) ==
    /\ variant = "memory"
    /\ Respond(Request("Search", EmptyString, NoPayload, tag),
               <<Write(200, "list", MemSearch(recipes, tag))>>)
    /\ UNCHANGED <<variant, recipes, xidCount, clock, upd, del>>

\* =========================================================================
\* Database builds (package main with *gorm.DB, and RecipeController)
\* =========================================================================

\* db.Create(&recipe): INSERT; the primary key rejects a second row with the
\* same id.
Insert(rows, recipe) ==
    IF HasID(rows, recipe.ID)
    THEN [err |-> TRUE, rows |-> rows]
    ELSE [err |-> FALSE, rows |-> Append(rows, recipe)]

\* loadInitialData(): DELETE FROM recipes, then every record of the file is
\* given an id and a publishedAt when it has none and is inserted.
RECURSIVE LoadInitialData(_, _)
LoadInitialData(file, st) ==
    IF file = <<>> THEN st
    ELSE LET r0 == Head(file)
             needID == r0.ID = EmptyString
             needTime == r0.PublishedAt = ZeroTime
             r1 == [r0 EXCEPT
                      !.ID = IF needID THEN Xid(st.xidCount + 1) ELSE @,
                      !.PublishedAt = IF needTime THEN st.clock ELSE @]
         IN LoadInitialData(Tail(file),
                [rows |-> Insert(st.rows, r1).rows,
                 xidCount |-> st.xidCount + (IF needID THEN 1 ELSE 0),
                 clock |-> st.clock + (IF needTime THEN 1 ELSE 0)])

\* db.Where("id = ?", id).First(&dest): the row with that id, or
\* ErrRecordNotFound.
First(rows, id) ==
    IF HasID(rows, id)
    THEN [err |-> FALSE,
          recipe |-> rows[CHOOSE i \in 1..Len(rows) : rows[i].ID = id]]
    ELSE [err |-> TRUE, recipe |-> ZeroRecipe]

\* The columns db.Model(&m).Updates(&recipe) assigns when recipe is a struct:
\* the fields of recipe that are not the zero value of their type ("" for a
\* string, nil for a slice, time.Time{} for a time). The same values are
\* assigned to the fields of m.
AssignAll(m, recipe) == recipe
Assign(m, recipe) ==
    [ID           |-> IF recipe.ID = EmptyString THEN m.ID ELSE recipe.ID,
     Name         |-> IF recipe.Name = EmptyString THEN m.Name ELSE recipe.Name,
     Tags         |-> IF recipe.Tags.isNil THEN m.Tags ELSE recipe.Tags,
     Ingredients  |-> IF recipe.Ingredients.isNil
                      THEN m.Ingredients ELSE recipe.Ingredients,
     Instructions |-> IF recipe.Instructions.isNil
                      THEN m.Instructions ELSE recipe.Instructions,
     PublishedAt  |-> IF recipe.PublishedAt = ZeroTime
                      THEN m.PublishedAt ELSE recipe.PublishedAt]

\* db.Model(&m).Updates(&recipe): UPDATE recipes SET ... WHERE id = m.ID.
\* A statement that matches no row is not an error.
Updates(rows, m, recipe) ==
    [i \in 1..Len(rows) |->
        IF rows[i].ID = m.ID THEN Assign(rows[i], recipe) ELSE rows[i]]

\* db.Delete(&recipe): DELETE FROM recipes WHERE id = recipe.ID.
RECURSIVE DeleteRow(_, _)
DeleteRow(rows, recipe) ==
    IF rows = <<>> THEN <<>>
    ELSE (IF Head(rows).ID = recipe.ID THEN <<>> ELSE <<Head(rows)>>)
         \o DeleteRow(Tail(rows), recipe)

\* The loops of the database SearchRecipesHandler: every tag of every recipe
\* is tested, and every test that succeeds appends the recipe.
RECURSIVE DbTagLoop(_, _, _)
DbTagLoop(recipe, tags, lowerTag) ==
    IF tags = <<>> THEN <<>>
    ELSE (IF Contains(ToLower(Head(tags)), lowerTag) THEN <<recipe>> ELSE <<>>)
         \o DbTagLoop(recipe, Tail(tags), lowerTag)

RECURSIVE DbSearch(_, _)
DbSearch(rows, lowerTag) ==
    IF rows = <<>> THEN <<>>
    ELSE DbTagLoop(Head(rows), Head(rows).Tags.elems, lowerTag)
         \o DbSearch(Tail(rows), lowerTag)

DbNewRecipeHandler(payload) ==
    /\ variant = "database"
    /\ xidCount < MaxCreates
    /\ IF ~payload.ok
       THEN /\ Respond(Request("Create", EmptyString, payload, <<>>),
                       <<Write(400, "error", <<>>)>>)
            /\ UNCHANGED <<recipes, xidCount, clock>>
       ELSE LET recipe == [payload.recipe EXCEPT !.ID = Xid(xidCount + 1),
                                                 !.PublishedAt = clock]
                created == Insert(recipes, recipe)
            IN /\ recipes' = created.rows
               /\ xidCount' = xidCount + 1
               /\ clock' = clock + 1
               /\ Respond(Request("Create", EmptyString, payload, <<>>),
                          IF created.err
                          THEN <<Write(500, "error", <<>>)>>
                          ELSE <<Write(200, "recipe", <<recipe>>)>>)
    /\ UNCHANGED <<variant, upd, del>>

DbListRecipesHandler ==
    /\ variant = "database"
    /\ Respond(Request("List", EmptyString, NoPayload, <<>>),
               <<Write(200, "list", recipes)>>)
    /\ UNCHANGED <<variant, recipes, xidCount, clock, upd, del>>

DbUpdateRecipeHandler(id, payload) ==
    /\ variant = "database"
    /\ LET found == First(recipes, id)
           recipe == [payload.recipe EXCEPT
                        !.ID = found.recipe.ID,
                        !.PublishedAt = found.recipe.PublishedAt]
       IN IF ~payload.ok
          THEN /\ Respond(Request("Update", id, payload, <<>>),
                          <<Write(400, "error", <<>>)>>)
               /\ UNCHANGED recipes
          ELSE IF found.err
          THEN /\ Respond(Request("Update", id, payload, <<>>),
                          <<Write(404, "error", <<>>)>>)
               /\ UNCHANGED recipes
          ELSE /\ recipes' = Updates(recipes, found.recipe, recipe)
               /\ Respond(Request("Update", id, payload, <<>>),
                          <<Write(200, "recipe",
                                  <<Assign(found.recipe, recipe)>>)>>)
    /\ UNCHANGED <<variant, xidCount, clock, upd, del>>

DbDeleteRecipeHandler(id) ==
    /\ variant = "database"
    /\ LET found == First(recipes, id)
       IN IF found.err
          THEN /\ Respond(Request("Delete", id, NoPayload, <<>>),
                          <<Write(404, "error", <<>>)>>)
               /\ UNCHANGED recipes
          ELSE /\ recipes' = DeleteRow(recipes, found.recipe)
               /\ Respond(Request("Delete", id, NoPayload, <<>>),
                          <<Write(200, "message", <<>>)>>)
    /\ UNCHANGED <<variant, xidCount, clock, upd, del>>

\* tag == "" writes the 400 and falls through: there is no return.
DbSearchRecipesHandler(tag) ==
    /\ variant = "database"
    /\ Respond(Request("Search", EmptyString, NoPayload, tag),
               (IF tag = <<>> THEN <<Write(400, "error", <<>>)>> ELSE <<>>)
               \o <<Write(200, "list", DbSearch(recipes, ToLower(tag)))>>)
    /\ UNCHANGED <<variant, recipes, xidCount, clock, upd, del>>

\* =========================================================================
\* Specification: one request at a time
\* =========================================================================
Init ==
    /\ variant \in {"memory", "database"}
    /\ \E file \in InitialFiles :
          LET loaded == LoadInitialData(file,
                            [rows |-> <<>>, xidCount |-> 0, clock |-> 1])
          IN IF variant = "memory"
             THEN /\ recipes = MemInit(file)
                  /\ xidCount = 0
                  /\ clock = 1
             ELSE /\ recipes = loaded.rows
                  /\ xidCount = loaded.xidCount
                  /\ clock = loaded.clock
    /\ req = Request("init", EmptyString, NoPayload, <<>>)
    /\ resp = <<>>
    /\ upd = Idle
    /\ del = Idle

Next ==
    \/ \E payload \in Payloads : MemNewRecipeHandler(payload)
    \/ MemListRecipesHandler
    \/ \E id \in PathIDs, payload \in Payloads : MemUpdateRecipeHandler(id, payload)
    \/ \E id \in PathIDs : MemDeleteRecipeHandler(id)
    \/ \E tag \in QueryTags : MemSearchRecipesHandler(tag)
    \/ \E payload \in Payloads : DbNewRecipeHandler(payload)
    \/ DbListRecipesHandler
    \/ \E id \in PathIDs, payload \in Payloads : DbUpdateRecipeHandler(id, payload)
    \/ \E id \in PathIDs : DbDeleteRecipeHandler(id)
    \/ \E tag \in QueryTags : DbSearchRecipesHandler(tag)

Spec == Init /\ [][Next]_vars

\* =========================================================================
\* Specification: a PUT and a DELETE served by two goroutines
\* =========================================================================
\* gin serves every request on its own goroutine; each gorm call is one SQL
\* statement, so the statements of two handlers interleave. `upd` and `del`
\* hold the locals of the PUT handler and of the DELETE handler.

\* UpdateRecipeHandler up to and including db.Where(...).First(&existingRecipe)
\* and the two assignments that follow it.
UpdateLookup(id, payload) ==
    /\ variant = "database"
    /\ upd.pc # "found"
    /\ LET found == First(recipes, id)
           recipe == [payload.recipe EXCEPT
                        !.ID = found.recipe.ID,
                        !.PublishedAt = found.recipe.PublishedAt]
       IN upd' = IF ~payload.ok
                 THEN [Idle EXCEPT !.pc = "done", !.id = id,
                                   !.resp = <<Write(400, "error", <<>>)>>]
                 ELSE IF found.err
                 THEN [Idle EXCEPT !.pc = "done", !.id = id,
                                   !.resp = <<Write(404, "error", <<>>)>>]
                 ELSE [pc |-> "found", id |-> id, recipe |-> recipe,
                       existing |-> found.recipe, resp |-> <<>>]
    /\ UNCHANGED <<variant, recipes, xidCount, clock, req, resp, del>>

\* db.Model(&existingRecipe).Updates(&recipe) and the 200 that follows.
UpdateWrite ==
    /\ variant = "database"
    /\ upd.pc = "found"
    /\ recipes' = Updates(recipes, upd.existing, upd.recipe)
    /\ LET existingRecipe == Assign(upd.existing, upd.recipe)
       IN upd' = [upd EXCEPT !.pc = "done", !.existing = existingRecipe,
                             !.resp = <<Write(200, "recipe", <<existingRecipe>>)>>]
    /\ UNCHANGED <<variant, xidCount, clock, req, resp, del>>

\* DeleteRecipeHandler up to and including db.Where(...).First(&recipe).
DeleteLookup(id) ==
    /\ variant = "database"
    /\ del.pc # "found"
    /\ LET found == First(recipes, id)
       IN del' = IF found.err
                 THEN [Idle EXCEPT !.pc = "done", !.id = id,
                                   !.resp = <<Write(404, "error", <<>>)>>]
                 ELSE [pc |-> "found", id |-> id, recipe |-> found.recipe,
                       existing |-> found.recipe, resp |-> <<>>]
    /\ UNCHANGED <<variant, recipes, xidCount, clock, req, resp, upd>>

\* db.Delete(&recipe) and the 200 that follows.
DeleteWrite ==
    /\ variant = "database"
    /\ del.pc = "found"
    /\ recipes' = DeleteRow(recipes, del.recipe)
    /\ del' = [del EXCEPT !.pc = "done",
                          !.resp = <<Write(200, "message", <<>>)>>]
    /\ UNCHANGED <<variant, xidCount, clock, req, resp, upd>>

InitConcurrent ==
    /\ Init
    /\ variant = "database"

NextConcurrent ==
    \/ \E payload \in Payloads : DbNewRecipeHandler(payload)
    \/ \E id \in PathIDs, payload \in Payloads : UpdateLookup(id, payload)
    \/ UpdateWrite
    \/ \E id \in PathIDs : DeleteLookup(id)
    \/ DeleteWrite

SpecConcurrent == InitConcurrent /\ [][NextConcurrent]_vars

\* =========================================================================
\* Properties
\* =========================================================================
\* The request r was answered by exactly one write, a 200.
Succeeded(r, w) == r.op # "init" /\ Len(w) = 1 /\ w[1].code = 200
\* The writes w are exactly one 404.
NotFound(w) == w = <<Write(404, "error", <<>>)>>
\* The list a search or list request sent last.
Result(w) == w[Len(w)].recipes
\* A record is in a list of records.
InList(r, rs) == \E k \in 1..Len(rs) : rs[k] = r
\* matches(record, lowerTag) of the search evaluator: some tag, lowercased,
\* contains lowerTag.
Matches(r, lowerTag) ==
    \E k \in 1..Len(r.Tags.elems) : Contains(ToLower(r.Tags.elems[k]), lowerTag)
\* sub is a subsequence of rs: rs with some positions left out.
RECURSIVE IsSubsequence(_, _)
IsSubsequence(sub, rs) ==
    IF sub = <<>> THEN TRUE
    ELSE IF rs = <<>> THEN FALSE
    ELSE \/ (Head(sub) = Head(rs) /\ IsSubsequence(Tail(sub), Tail(rs)))
         \/ IsSubsequence(sub, Tail(rs))

\* C1: a successful Update(id, input) stores and returns a record whose id
\* and publishedAt are those of the record that had id before the request,
\* whatever id and publishedAt the input carries.
C1_UpdatePreservesIdAndPublishedAt ==
    [][(req'.op = "Update" /\ Succeeded(req', resp')) =>
         \E i \in 1..Len(recipes) :
            /\ recipes[i].ID = req'.id
            /\ Len(recipes') = Len(recipes)
            /\ recipes'[i].ID = recipes[i].ID
            /\ recipes'[i].PublishedAt = recipes[i].PublishedAt
            /\ resp'[1].recipes[1].ID = recipes[i].ID
            /\ resp'[1].recipes[1].PublishedAt = recipes[i].PublishedAt]_vars

\* C2: a successful Update(id, input) is a full replace: name, tags,
\* ingredients and instructions of the stored record are those of the input,
\* so a field the input omits or leaves empty is empty afterwards.
C2_UpdateIsFullReplace ==
    [][(req'.op = "Update" /\ Succeeded(req', resp')) =>
         \E i \in 1..Len(recipes) :
            /\ recipes[i].ID = req'.id
            /\ Len(recipes') = Len(recipes)
            /\ recipes'[i].Name = req'.payload.recipe.Name
            /\ recipes'[i].Tags.elems = req'.payload.recipe.Tags.elems
            /\ recipes'[i].Ingredients.elems = req'.payload.recipe.Ingredients.elems
            /\ recipes'[i].Instructions.elems = req'.payload.recipe.Instructions.elems]_vars

\* C3: a Search with an empty or absent tag is answered by one error and
\* nothing else: no list of records is sent.
C3_EmptyTagIsRejected ==
    (req.op = "Search" /\ req.tag = <<>>) =>
        /\ Len(resp) = 1
        /\ resp[1].code = 400
        /\ resp[1].kind = "error"

\* C4: for a non-empty search tag, a stored record is in the result exactly
\* when one of its tags, lowercased, contains the lowercased search tag.
C4_SearchIsCaseInsensitiveSubstring ==
    (req.op = "Search" /\ req.tag # <<>>) =>
        /\ \A i \in 1..Len(recipes) :
              InList(recipes[i], Result(resp)) <=> Matches(recipes[i], ToLower(req.tag))
        /\ \A k \in 1..Len(Result(resp)) : InList(Result(resp)[k], recipes)

\* C5: the result of a Search is a subsequence of the stored list, so a
\* stored record is in it at most once, and every matching record is in it.
C5_SearchResultHasEachMatchOnce ==
    (req.op = "Search" /\ req.tag # <<>>) =>
        /\ IsSubsequence(Result(resp), recipes)
        /\ \A i \in 1..Len(recipes) :
              Matches(recipes[i], ToLower(req.tag)) => InList(recipes[i], Result(resp))

\* C6: every stored record has a non-empty id and no two stored records have
\* the same id.
C6_IdsNonEmptyAndUnique ==
    /\ \A i \in 1..Len(recipes) : recipes[i].ID # EmptyString
    /\ \A i, j \in 1..Len(recipes) : recipes[i].ID = recipes[j].ID => i = j

\* C7: when a Delete(id) has reported success, no stored record has that id.
C7_DeletedIdIsGone ==
    (req.op = "Delete" /\ Succeeded(req, resp)) => ~HasID(recipes, req.id)

\* C8: an Update with a well-formed body, or a Delete, whose id no stored
\* record has is answered with 404 and leaves the store as it was.
C8_NotFoundLeavesStoreUnchanged ==
    [][(/\ \/ req'.op = "Update" /\ req'.payload.ok
           \/ req'.op = "Delete"
        /\ ~HasID(recipes, req'.id)) =>
         (NotFound(resp') /\ recipes' = recipes)]_vars

\* C8 witness: an Update or a Delete of an id that no stored record has was
\* answered with 404 while the store held records.
C8_Witness ==
    /\ req.op \in {"Update", "Delete"}
    /\ NotFound(resp)
    /\ ~HasID(recipes, req.id)
    /\ Len(recipes) > 0

\* C9: in the in-memory build List sends the stored list; Create appends the
\* record it returns; a successful Update(id) replaces one record that had
\* that id, in place; a successful Delete(id) removes one record that had
\* that id; every other record keeps its value and its place in the order,
\* and no other request changes the list.
C9_MemoryRequestsTouchOnlyTheirTarget ==
    [][variant = "memory" =>
         /\ (req'.op = "List") =>
               (Result(resp') = recipes /\ recipes' = recipes)
         /\ (req'.op = "Create" /\ Succeeded(req', resp')) =>
               recipes' = Append(recipes, resp'[1].recipes[1])
         /\ (req'.op = "Update" /\ Succeeded(req', resp')) =>
               \E i \in 1..Len(recipes) :
                  /\ recipes[i].ID = req'.id
                  /\ recipes' = [recipes EXCEPT ![i] = resp'[1].recipes[1]]
         /\ (req'.op = "Delete" /\ Succeeded(req', resp')) =>
               \E i \in 1..Len(recipes) :
                  /\ recipes[i].ID = req'.id
                  /\ Len(recipes') = Len(recipes) - 1
                  /\ \A j \in 1..(i - 1) : recipes'[j] = recipes[j]
                  /\ \A j \in i..Len(recipes') : recipes'[j] = recipes[j + 1]
         /\ (req'.op = "Search" \/ ~Succeeded(req', resp')) =>
               recipes' = recipes]_vars

\* C9 witness: the in-memory build deleted the first of several records and
\* the records after it are still stored.
C9_Witness ==
    /\ variant = "memory"
    /\ req.op = "Delete"
    /\ Succeeded(req, resp)
    /\ req.id = Xid(1)
    /\ Len(recipes) > 0
    /\ recipes[1].ID = Xid(2)

\* C10: when the PUT handler answers 200, a row equal to the record it
\* returns is in the table, also when a DELETE for the same id ran between
\* its lookup and its write.
C10_UpdateSuccessMeansRowStored ==
    [][(upd.pc = "found" /\ upd'.pc = "done" /\ upd'.resp[1].code = 200) =>
         InList(upd'.resp[1].recipes[1], recipes')]_vars

====
